---- MODULE Spec2Model ----
(***************************************************************************)
(* cpurender2: a fragment function is evaluated once per pixel by a rayon  *)
(* parallel iterator running on a spawned draw thread (frag.rs); every     *)
(* result is pushed as a Paint into a crossbeam SegQueue; the thread that  *)
(* called open_window (window.rs) loops render / drain / poll until a      *)
(* close event is polled.                                                  *)
(***************************************************************************)
EXTENDS Integers, Sequences, FiniteSets, Bags, TLC

(* ---------------------------------------------------------------------- *)
(* Bounds of the model.                                                    *)
(* ---------------------------------------------------------------------- *)

\* x_size * y_size of the windows explored is at most MaxArea
MaxArea == 4

\* x_size * y_size of the windows explored under the fair specifications, at most
LiveArea == 2

\* number of rayon pool threads running the for_each closure
NumWorkers == 2

\* number of events one poll_events call delivers, at most
MaxEvents == 1

\* Vec2::new(x as i32, y as i32): the largest value the cast leaves unchanged
I32Max == 2147483647

VARIABLES
    x_size,     \* open_window / fragment_stateful argument
    y_size,     \* open_window / fragment_stateful argument
    fragment,   \* the caller's fragment function (one of FragmentIds)
    state,      \* the caller's shared state S, moved into the draw closure
    dispatch,   \* draw thread: "spawned", "running", "done", "panicked"
    todo,       \* items of the parallel iterator not yet handed to for_each
    worker,     \* per pool thread: idle, or holding the Paint it is about to push
    queue,      \* the SegQueue<Paint>, head first
    canvas,     \* canvas_buf_tex: index -> [u8; 4]
    frame,      \* what the last frame.finish() presented
    open,       \* let mut open
    pc,         \* position of the window thread
    shown,      \* history: the canvas contents the last frame was drawn from
    polled,     \* events the running poll_events call has handed to the callback
    closeSeen,  \* history: some poll delivered WindowEvent::CloseRequested
    quitSeen,   \* history: some poll delivered a close request or a quit key combination
    evals,      \* history: coordinate -> number of fragment calls made for it
    pushLog,    \* history: bag of every Paint ever pushed
    popSeq      \* history: every Paint ever popped, in pop order

inputs == <<x_size, y_size, fragment, state>>

producer == <<dispatch, todo, worker, evals, pushLog>>

consumer == <<canvas, frame, shown, open, pc, polled, closeSeen, quitSeen, popSeq>>

vars == <<x_size, y_size, fragment, state, dispatch, todo, worker, queue,
          canvas, frame, shown, open, pc, polled, closeSeen, quitSeen, evals, pushLog,
          popSeq>>

Workers == 1..NumWorkers

(* ---------------------------------------------------------------------- *)
(* The caller's inputs.                                                    *)
(* ---------------------------------------------------------------------- *)

\* window sizes explored (usize, so 0 is a legal size)
Sizes(area) == {s \in (0..area) \X (0..area) : s[1] * s[2] <= area}

Min(a, b) == IF a <= b THEN a ELSE b

\* the fragment functions explored; "faulty" panics on some coordinates
FragmentIds == {"grad", "scaled", "clear", "faulty"}

\* launches: fragment() passes the unit state, fragment_stateful a real one
Launches ==
    {[fragment |-> "grad", state |-> 0],
     [fragment |-> "scaled", state |-> 2],
     [fragment |-> "clear", state |-> 0],
     [fragment |-> "faulty", state |-> 0]}

\* does the call fragment(v, &s) panic
FragPanics(id, v, s) == id = "faulty" /\ (v[1] + v[2]) % 2 = 1

\* the Rgba<u8> that fragment(v, &s) returns
FragColor(id, v, s) ==
    CASE id = "grad" -> <<(v[1] * 255) % 256, (v[2] * 255) % 256, 0, 255>>
      [] id = "scaled" -> <<Min(v[1] * s, 255), 0, 0, 255>>
      [] id = "clear" -> <<0, 0, 0, 0>>
      [] OTHER -> <<255, (v[1] * 16) % 256, (v[2] * 16) % 256, 128>>

(* ---------------------------------------------------------------------- *)
(* frag.rs                                                                 *)
(* ---------------------------------------------------------------------- *)

\* (0..x_size).into_par_iter().flat_map(|x| (0..y_size).into_par_iter().map(|y| (x, y)))
\* mutant: both ranges include their upper end
DomainInclusive(xs, ys) == (0..xs) \X (0..ys)

Domain(xs, ys) == (0..(xs - 1)) \X (0..(ys - 1))

\* x as i32, y as i32
AsI32(n) == IF n <= I32Max THEN n ELSE n - I32Max - I32Max - 2

\* Vec2::new(x as i32, y as i32)
FragArg(c) == <<AsI32(c[1]), AsI32(c[2])>>

\* Paint { x, y, r: color.r, g: color.g, b: color.b, a: color.a }
MkPaint(c, color) ==
    [x |-> c[1], y |-> c[2], r |-> color[1], g |-> color[2], b |-> color[3], a |-> color[4]]

Idle == [st |-> "idle"]

(* ---------------------------------------------------------------------- *)
(* window.rs                                                               *)
(* ---------------------------------------------------------------------- *)

\* zeroes: x_size * y_size entries [0x00, 0x00, 0x00, 0x00]
ZeroCanvas(xs, ys) == [i \in 0..(xs * ys - 1) |-> <<0, 0, 0, 0>>]

\* mutant: an address that does not separate the coordinates
IndexSum(p, xs) == p.y + p.x

\* mutant: column-major addressing
IndexColumnMajor(p, xs) == p.x * xs + p.y

\* let i: usize = y * x_size + x
Index(p, xs) == p.y * xs + p.x

\* mutant: the channels stored in reverse order
RgbaReversed(p) == <<p.a, p.b, p.g, p.r>>

\* let rgba = [r, g, b, a]
Rgba(p) == <<p.r, p.g, p.b, p.a>>

\* mutant: the write does not reach the buffer
SetPixelDropped(cv, i, rgba) == cv

\* canvas_mmap.set(i, rgba)
SetPixel(cv, i, rgba) == [cv EXCEPT ![i] = rgba]

\* fragment shader: mix(vec4(0.5), painted / 256.0, painted.a / 256.0), one channel,
\* in units of 1/65536
Mix(ch, alpha) == 128 * (256 - alpha) + ch * alpha

\* mutant: the drawn color also depends on how much is waiting in the channel
RenderOutTinted(cv) ==
    [i \in DOMAIN cv |-> [k \in 1..4 |-> Mix(cv[i][k], cv[i][4]) + Len(queue)]]

\* the frame drawn from the canvas: texel index -> f_col
RenderOut(cv) == [i \in DOMAIN cv |-> [k \in 1..4 |-> Mix(cv[i][k], cv[i][4])]]

\* the glutin events the match distinguishes: one per arm, and some that miss every arm
Events ==
    {[kind |-> "CloseRequested", key |-> "none", logo |-> FALSE, ctrl |-> FALSE],
     [kind |-> "DeviceKey", key |-> "W", logo |-> TRUE, ctrl |-> FALSE],
     [kind |-> "WindowKey", key |-> "W", logo |-> TRUE, ctrl |-> FALSE],
     [kind |-> "DeviceKey", key |-> "W", logo |-> FALSE, ctrl |-> TRUE],
     [kind |-> "WindowKey", key |-> "W", logo |-> FALSE, ctrl |-> TRUE],
     [kind |-> "WindowKey", key |-> "W", logo |-> FALSE, ctrl |-> FALSE],
     [kind |-> "DeviceKey", key |-> "A", logo |-> TRUE, ctrl |-> TRUE],
     [kind |-> "Other", key |-> "none", logo |-> FALSE, ctrl |-> FALSE]}

\* mutant: the key W closes the window whatever the modifiers
HandleEventAnyW(o, ev) ==
    CASE ev.kind = "CloseRequested" -> FALSE
      [] ev.kind \in {"DeviceKey", "WindowKey"} /\ ev.key = "W" -> FALSE
      [] OTHER -> o

\* the match of the poll_events callback: the value of `open` after the event
HandleEvent(o, ev) ==
    CASE ev.kind = "CloseRequested" -> FALSE
      [] ev.kind = "DeviceKey" /\ ev.key = "W" /\ ev.logo -> FALSE
      [] ev.kind = "WindowKey" /\ ev.key = "W" /\ ev.logo -> FALSE
      [] ev.kind = "DeviceKey" /\ ev.key = "W" /\ ev.ctrl -> FALSE
      [] ev.kind = "WindowKey" /\ ev.key = "W" /\ ev.ctrl -> FALSE
      [] OTHER -> o

(* ---------------------------------------------------------------------- *)
(* Initial state: open_window has created the queue, spawned the draw      *)
(* thread, built the display and the zeroed canvas, and set open = true.   *)
(* ---------------------------------------------------------------------- *)

InitOfArea(area) ==
    /\ \E s \in Sizes(area) : x_size = s[1] /\ y_size = s[2]
    /\ \E l \in Launches : fragment = l.fragment /\ state = l.state
    /\ dispatch = "spawned"
    /\ todo = {}
    /\ worker = [w \in Workers |-> Idle]
    /\ queue = <<>>
    /\ canvas = ZeroCanvas(x_size, y_size)
    /\ frame = <<>>
    /\ shown = <<>>
    /\ open = TRUE
    /\ pc = "while"
    /\ polled = 0
    /\ closeSeen = FALSE
    /\ quitSeen = FALSE
    /\ evals = [c \in Domain(x_size, y_size) |-> 0]
    /\ pushLog = EmptyBag
    /\ popSeq = <<>>

Init == InitOfArea(MaxArea)

LiveInit == InitOfArea(LiveArea)

(* ---------------------------------------------------------------------- *)
(* The draw thread and the rayon workers.                                  *)
(* ---------------------------------------------------------------------- *)

\* the spawned thread starts draw_thread(paint_queue_1): the parallel iterator is built
DrawThreadStart ==
    /\ dispatch = "spawned"
    /\ dispatch' = "running"
    /\ todo' = Domain(x_size, y_size)
    /\ UNCHANGED <<worker, evals, pushLog, queue>>
    /\ UNCHANGED inputs
    /\ UNCHANGED consumer

\* mutant: the item stays available to other pool threads
TakeItemKeep(items, c) == items

\* what is left of the parallel iterator once item c has been handed out
TakeItem(items, c) == items \ {c}

\* mutant: the pool threads stop taking items once the window is closed
FragEvalWhileOpen(w, c) ==
    /\ open
    /\ dispatch = "running"
    /\ worker[w] = Idle
    /\ c \in todo
    /\ ~FragPanics(fragment, FragArg(c), state)
    /\ todo' = TakeItem(todo, c)
    /\ worker' = [worker EXCEPT ![w] =
           [st |-> "painted", paint |-> MkPaint(c, FragColor(fragment, FragArg(c), state))]]
    /\ evals' = [evals EXCEPT ![c] = @ + 1]
    /\ UNCHANGED <<dispatch, pushLog, queue>>
    /\ UNCHANGED inputs
    /\ UNCHANGED consumer

\* mutant: the fragment function is called with the unit state, not the launch's state
FragEvalUnitState(w, c) ==
    /\ dispatch = "running"
    /\ worker[w] = Idle
    /\ c \in todo
    /\ ~FragPanics(fragment, FragArg(c), 0)
    /\ todo' = TakeItem(todo, c)
    /\ worker' = [worker EXCEPT ![w] =
           [st |-> "painted", paint |-> MkPaint(c, FragColor(fragment, FragArg(c), 0))]]
    /\ evals' = [evals EXCEPT ![c] = @ + 1]
    /\ UNCHANGED <<dispatch, pushLog, queue>>
    /\ UNCHANGED inputs
    /\ UNCHANGED consumer

\* a pool thread receives item c and calls fragment(Vec2::new(x, y), &state): it returns
FragEval(w, c) ==
    /\ dispatch = "running"
    /\ worker[w] = Idle
    /\ c \in todo
    /\ ~FragPanics(fragment, FragArg(c), state)
    /\ todo' = TakeItem(todo, c)
    /\ worker' = [worker EXCEPT ![w] =
           [st |-> "painted", paint |-> MkPaint(c, FragColor(fragment, FragArg(c), state))]]
    /\ evals' = [evals EXCEPT ![c] = @ + 1]
    /\ UNCHANGED <<dispatch, pushLog, queue>>
    /\ UNCHANGED inputs
    /\ UNCHANGED consumer

\* mutant: the panic aborts the process, window thread included
FragPanicAbort(w, c) ==
    /\ dispatch = "running"
    /\ worker[w] = Idle
    /\ c \in todo
    /\ FragPanics(fragment, FragArg(c), state)
    /\ todo' = TakeItem(todo, c)
    /\ worker' = [worker EXCEPT ![w] = [st |-> "panicked"]]
    /\ evals' = [evals EXCEPT ![c] = @ + 1]
    /\ pc' = "crashed"
    /\ UNCHANGED <<dispatch, pushLog, queue>>
    /\ UNCHANGED inputs
    /\ UNCHANGED <<canvas, frame, shown, open, polled, closeSeen, quitSeen, popSeq>>

\* a pool thread receives item c and the fragment call panics: nothing is pushed for c,
\* and the panic is carried to the for_each caller once the other tasks have ended
FragPanic(w, c) ==
    /\ dispatch = "running"
    /\ worker[w] = Idle
    /\ c \in todo
    /\ FragPanics(fragment, FragArg(c), state)
    /\ todo' = TakeItem(todo, c)
    /\ worker' = [worker EXCEPT ![w] = [st |-> "panicked"]]
    /\ evals' = [evals EXCEPT ![c] = @ + 1]
    /\ UNCHANGED <<dispatch, pushLog, queue>>
    /\ UNCHANGED inputs
    /\ UNCHANGED consumer

\* the unwinding task drops an item of its own sequential share without evaluating it
Unwind(w, c) ==
    /\ dispatch = "running"
    /\ worker[w] = [st |-> "panicked"]
    /\ c \in todo
    /\ todo' = TakeItem(todo, c)
    /\ UNCHANGED <<dispatch, worker, evals, pushLog, queue>>
    /\ UNCHANGED inputs
    /\ UNCHANGED consumer

\* mutant: a push delivers the instruction twice
EnqueueTwice(q, p) == Append(Append(q, p), p)

\* the queue after queue.push(p)
Enqueue(q, p) == Append(q, p)

\* mutant: a channel of capacity one; a push waits while it is full
PushBounded(w) ==
    /\ worker[w].st = "painted"
    /\ Len(queue) < 1
    /\ queue' = Enqueue(queue, worker[w].paint)
    /\ pushLog' = pushLog (+) SetToBag({worker[w].paint})
    /\ worker' = [worker EXCEPT ![w] = Idle]
    /\ UNCHANGED <<dispatch, todo, evals>>
    /\ UNCHANGED inputs
    /\ UNCHANGED consumer

\* queue.push(Paint { .. })
Push(w) ==
    /\ worker[w].st = "painted"
    /\ queue' = Enqueue(queue, worker[w].paint)
    /\ pushLog' = pushLog (+) SetToBag({worker[w].paint})
    /\ worker' = [worker EXCEPT ![w] = Idle]
    /\ UNCHANGED <<dispatch, todo, evals>>
    /\ UNCHANGED inputs
    /\ UNCHANGED consumer

\* for_each returns (or resumes the panic): the closure and the draw thread end
DrawThreadEnd ==
    /\ dispatch = "running"
    /\ todo = {}
    /\ \A w \in Workers : worker[w].st # "painted"
    /\ dispatch' = IF \E w \in Workers : worker[w].st = "panicked" THEN "panicked" ELSE "done"
    /\ UNCHANGED <<todo, worker, evals, pushLog, queue>>
    /\ UNCHANGED inputs
    /\ UNCHANGED consumer

(* ---------------------------------------------------------------------- *)
(* The window loop.                                                        *)
(* ---------------------------------------------------------------------- *)

\* mutant: the loop test ignores `open`
LoopTargetAlways(o) == "render"

\* where `while open` goes
LoopTarget(o) == IF o THEN "render" ELSE "exited"

\* while open { .. }   /   the loop ends
LoopCheck ==
    /\ pc = "while"
    /\ pc' = LoopTarget(open)
    /\ UNCHANGED <<canvas, frame, shown, open, polled, closeSeen, quitSeen, popSeq, queue>>
    /\ UNCHANGED inputs
    /\ UNCHANGED producer

\* frame.draw(..) and frame.finish()
Render ==
    /\ pc = "render"
    /\ frame' = RenderOut(canvas)
    /\ shown' = canvas
    /\ pc' = "drain_check"
    /\ UNCHANGED <<canvas, open, polled, closeSeen, quitSeen, popSeq, queue>>
    /\ UNCHANGED inputs
    /\ UNCHANGED producer

\* if !paint_queue_0.is_empty() { let mut canvas_mmap = canvas_buf_tex.map_write(); .. }
\* mutant: mapping the buffer for writing hands out zeroed storage
DrainCheckRemapping ==
    /\ pc = "drain_check"
    /\ pc' = IF queue # <<>> THEN "drain_pop" ELSE "poll"
    /\ canvas' = IF queue # <<>> THEN ZeroCanvas(x_size, y_size) ELSE canvas
    /\ UNCHANGED <<frame, shown, open, polled, closeSeen, quitSeen, popSeq, queue>>
    /\ UNCHANGED inputs
    /\ UNCHANGED producer

\* if !paint_queue_0.is_empty() { let mut canvas_mmap = canvas_buf_tex.map_write(); .. }
DrainCheck ==
    /\ pc = "drain_check"
    /\ pc' = IF queue # <<>> THEN "drain_pop" ELSE "poll"
    /\ UNCHANGED <<canvas, frame, shown, open, polled, closeSeen, quitSeen, popSeq, queue>>
    /\ UNCHANGED inputs
    /\ UNCHANGED producer

\* mutant: pop returns the head and leaves it in the queue
DequeuePeek(q) == q

\* the queue after a successful paint_queue_0.pop()
Dequeue(q) == Tail(q)

\* mutant: every write is presented at once, without waiting for the next render
DrainPopPresenting ==
    /\ pc = "drain_pop"
    /\ queue # <<>>
    /\ LET p == Head(queue)
           i == Index(p, x_size)
       IN  /\ queue' = Dequeue(queue)
           /\ popSeq' = Append(popSeq, p)
           /\ IF i \in DOMAIN canvas
              THEN canvas' = SetPixel(canvas, i, Rgba(p)) /\ pc' = "drain_pop"
              ELSE canvas' = canvas /\ pc' = "crashed"
    /\ frame' = RenderOut(canvas')
    /\ shown' = canvas'
    /\ UNCHANGED <<open, polled, closeSeen, quitSeen>>
    /\ UNCHANGED inputs
    /\ UNCHANGED producer

\* while let Ok(Paint { .. }) = paint_queue_0.pop() { canvas_mmap.set(i, rgba) }: one turn
DrainPop ==
    /\ pc = "drain_pop"
    /\ queue # <<>>
    /\ LET p == Head(queue)
           i == Index(p, x_size)
       IN  /\ queue' = Dequeue(queue)
           /\ popSeq' = Append(popSeq, p)
           /\ IF i \in DOMAIN canvas
              THEN canvas' = SetPixel(canvas, i, Rgba(p)) /\ pc' = "drain_pop"
              ELSE canvas' = canvas /\ pc' = "crashed"
    /\ UNCHANGED <<frame, shown, open, polled, closeSeen, quitSeen>>
    /\ UNCHANGED inputs
    /\ UNCHANGED producer

\* mutant: an empty pop waits for more instructions until the dispatch has ended
DrainEndWaiting ==
    /\ pc = "drain_pop"
    /\ queue = <<>>
    /\ dispatch \in {"done", "panicked"}
    /\ pc' = "poll"
    /\ UNCHANGED <<canvas, frame, shown, open, polled, closeSeen, quitSeen, popSeq, queue>>
    /\ UNCHANGED inputs
    /\ UNCHANGED producer

\* paint_queue_0.pop() returns Err: the while let ends, the mapping is dropped
DrainEnd ==
    /\ pc = "drain_pop"
    /\ queue = <<>>
    /\ pc' = "poll"
    /\ UNCHANGED <<canvas, frame, shown, open, polled, closeSeen, quitSeen, popSeq, queue>>
    /\ UNCHANGED inputs
    /\ UNCHANGED producer

\* a close request, or W pressed with the logo or the ctrl modifier
IsQuit(ev) ==
    \/ ev.kind = "CloseRequested"
    \/ ev.kind \in {"DeviceKey", "WindowKey"} /\ ev.key = "W" /\ (ev.logo \/ ev.ctrl)

\* events_loop.poll_events(|event| match event { .. }): the callback runs for one event
PollEvent(ev) ==
    /\ pc = "poll"
    /\ polled < MaxEvents
    /\ open' = HandleEvent(open, ev)
    /\ closeSeen' = (closeSeen \/ ev.kind = "CloseRequested")
    /\ quitSeen' = (quitSeen \/ IsQuit(ev))
    /\ polled' = polled + 1
    /\ UNCHANGED <<canvas, frame, shown, pc, popSeq, queue>>
    /\ UNCHANGED inputs
    /\ UNCHANGED producer

\* no event is pending any more: poll_events returns, the loop body ends
PollEnd ==
    /\ pc = "poll"
    /\ pc' = "while"
    /\ polled' = 0
    /\ UNCHANGED <<canvas, frame, shown, open, closeSeen, quitSeen, popSeq, queue>>
    /\ UNCHANGED inputs
    /\ UNCHANGED producer

\* mutant: what is left in the queue is written to the canvas on the way out
ReturnFlushing ==
    /\ pc = "exited"
    /\ pc' = "returned"
    /\ canvas' = [i \in DOMAIN canvas |->
                    LET at == {k \in DOMAIN queue : Index(queue[k], x_size) = i}
                    IN  IF at = {} THEN canvas[i] ELSE Rgba(queue[CHOOSE k \in at : TRUE])]
    /\ popSeq' = popSeq \o queue
    /\ queue' = <<>>
    /\ UNCHANGED <<frame, shown, open, polled, closeSeen, quitSeen>>
    /\ UNCHANGED inputs
    /\ UNCHANGED producer

\* mutant: the draw thread is joined before returning
ReturnJoined ==
    /\ pc = "exited"
    /\ dispatch \in {"done", "panicked"}
    /\ pc' = "returned"
    /\ UNCHANGED <<canvas, frame, shown, open, polled, closeSeen, quitSeen, popSeq, queue>>
    /\ UNCHANGED inputs
    /\ UNCHANGED producer

\* trace!("closing window"); open_window and fragment_stateful return to the caller
Return ==
    /\ pc = "exited"
    /\ pc' = "returned"
    /\ UNCHANGED <<canvas, frame, shown, open, polled, closeSeen, quitSeen, popSeq, queue>>
    /\ UNCHANGED inputs
    /\ UNCHANGED producer

WorkerStep ==
    \/ \E w \in Workers : \E c \in todo : FragEval(w, c)
    \/ \E w \in Workers : \E c \in todo : FragPanic(w, c)
    \/ \E w \in Workers : \E c \in todo : Unwind(w, c)
    \/ \E w \in Workers : Push(w)

Next ==
    \/ DrawThreadStart
    \/ \E w \in Workers : \E c \in todo : FragEval(w, c)
    \/ \E w \in Workers : \E c \in todo : FragPanic(w, c)
    \/ \E w \in Workers : \E c \in todo : Unwind(w, c)
    \/ \E w \in Workers : Push(w)
    \/ DrawThreadEnd
    \/ LoopCheck
    \/ Render
    \/ DrainCheck
    \/ DrainPop
    \/ DrainEnd
    \/ \E ev \in Events : PollEvent(ev)
    \/ PollEnd
    \/ Return

Spec == Init /\ [][Next]_vars

(* ---------------------------------------------------------------------- *)
(* Properties.                                                             *)
(* ---------------------------------------------------------------------- *)

\* the coordinates of this launch
Dom == Domain(x_size, y_size)

\* f(coordinate, state): the color the caller's function gives coordinate <<x, y>>
Expected(x, y) == FragColor(fragment, <<x, y>>, state)

Transparent == <<0, 0, 0, 0>>

\* every evaluation has completed: for_each has returned normally
AllEvaluated == dispatch = "done"

\* number of instructions ever pushed for coordinate c
PushesOf(c) ==
    BagCardinality([p \in {q \in BagToSet(pushLog) : q.x = c[1] /\ q.y = c[2]} |-> pushLog[p]])

RECURSIVE SeqToBag(_)
SeqToBag(s) == IF s = <<>> THEN EmptyBag ELSE SetToBag({Head(s)}) (+) SeqToBag(Tail(s))

\* C1 (Coverage): once every evaluation has completed and the channel is drained, with
\* the window still open, canvas[y * width + x] = f((x, y), state) for every coordinate
\* of the domain, and the canvas has exactly width * height entries; for width = height
\* = 2 and f = (x * 255, y * 255, 0, 255) it is the canvas the scenario lists.
Coverage ==
    (AllEvaluated /\ queue = <<>> /\ open) =>
        /\ DOMAIN canvas = 0..(x_size * y_size - 1)
        /\ \A x \in 0..(x_size - 1) : \A y \in 0..(y_size - 1) :
               canvas[y * x_size + x] = Expected(x, y)
        /\ (x_size = 2 /\ y_size = 2 /\ fragment = "grad") =>
               canvas = [i \in 0..3 |->
                            CASE i = 0 -> <<0, 0, 0, 255>>
                              [] i = 1 -> <<255, 0, 0, 255>>
                              [] i = 2 -> <<0, 255, 0, 255>>
                              [] i = 3 -> <<255, 255, 0, 255>>]

CoverageWitness ==
    /\ AllEvaluated /\ queue = <<>> /\ open
    /\ x_size = 2 /\ y_size = 2 /\ fragment = "grad"
    /\ Len(popSeq) = 4
    /\ pc = "render"

\* C2 (No duplication): no coordinate is ever evaluated or pushed more than once, and
\* once all workers have finished exactly one instruction has been pushed for each
\* coordinate, width * height in total.
NoDuplication ==
    /\ \A c \in Dom : evals[c] <= 1 /\ PushesOf(c) <= 1
    /\ AllEvaluated =>
          /\ BagCardinality(pushLog) = x_size * y_size
          /\ \A c \in Dom : evals[c] = 1 /\ PushesOf(c) = 1

NoDuplicationWitness ==
    /\ AllEvaluated
    /\ x_size * y_size = MaxArea
    /\ BagCardinality(pushLog) = MaxArea
    /\ queue # <<>>

\* C3 (Progressive correctness): in every reachable state every canvas entry is either
\* the initial transparent value or f of its own coordinate.
Progressive ==
    \A x \in 0..(x_size - 1) : \A y \in 0..(y_size - 1) :
        canvas[y * x_size + x] \in {Transparent, Expected(x, y)}

ProgressiveWitness ==
    /\ fragment = "grad" /\ x_size = 2 /\ y_size = 2
    /\ canvas[1] = <<255, 0, 0, 255>>
    /\ canvas[2] = Transparent
    /\ canvas[3] = <<255, 255, 0, 255>>
    /\ queue # <<>>
    /\ pc = "drain_pop"

\* C5 (At-most-once, lossless channel): the instructions popped so far together with
\* the instructions still in the channel are, as a bag, exactly the instructions pushed
\* so far: nothing popped that was not pushed, nothing popped twice, nothing lost.
ChannelLossless == pushLog = SeqToBag(popSeq \o queue)

ChannelLosslessWitness ==
    /\ Len(popSeq) >= 1
    /\ Len(queue) >= 1
    /\ \A w \in Workers : worker[w].st = "painted"
    /\ pc = "drain_pop"

\* the loop is leaving or has left Open: `open` is false and the thread is in the poll
\* that cleared it, at the loop test, or past the loop
LeftOpen == ~open /\ pc \in {"poll", "while", "exited", "returned"}

\* C6 (Shutdown): once a poll has observed CloseRequested the loop has left Open by the
\* end of that iteration (open is false and the thread is in that poll, at the loop test
\* or past the loop), and no Render step and no Drain step is taken from then on.
Shutdown ==
    /\ [](closeSeen => LeftOpen)
    /\ [][closeSeen => ~(Render \/ DrainCheck \/ DrainPop \/ DrainEnd)]_vars

ShutdownWitness ==
    /\ closeSeen
    /\ pc = "returned"
    /\ queue # <<>>
    /\ frame # <<>>

\* C7 (Blocking entry point): the call has returned only if the loop was left with the
\* window closed, and once the loop is left the return is possible whatever the draw
\* thread and its workers are doing.
BlocksUntilClosed ==
    /\ pc \in {"exited", "returned"} => ~open
    /\ pc = "exited" => ENABLED Return

BlocksUntilClosedWitness ==
    /\ pc = "returned"
    /\ dispatch = "running"
    /\ todo # {}
    /\ \E w \in Workers : worker[w].st = "painted"

\* the fragment function has failed for some coordinate
Failed == dispatch = "panicked" \/ \E w \in Workers : worker[w].st = "panicked"

Poll == PollEnd \/ \E ev \in Events : PollEvent(ev)

LoopStep == LoopCheck \/ Render \/ DrainCheck \/ DrainPop \/ DrainEnd \/ Poll

\* C9 as claimed (Fatal failure): after the fragment function has failed the loop
\* performs no further Render, Drain or Poll step.
FailureIsFatal == [][Failed => ~(Render \/ DrainCheck \/ DrainPop \/ DrainEnd \/ Poll)]_vars

\* C9 as amended (Contained failure): a failure of the fragment function ends only the
\* dispatch; nothing is pushed or painted for a failing coordinate, and the loop is not
\* stopped: while the window is open it is inside the loop with its next step enabled,
\* and it is outside the loop only with the window closed.
FailureContained ==
    Failed =>
        /\ open => (pc \in {"while", "render", "drain_check", "drain_pop", "poll"}
                    /\ ENABLED LoopStep)
        /\ ~open => pc \in {"poll", "while", "exited", "returned"}
        /\ \A c \in Dom : FragPanics(fragment, FragArg(c), state) =>
               (PushesOf(c) = 0 /\ canvas[c[2] * x_size + c[1]] = Transparent)

FailureContainedWitness ==
    /\ dispatch = "panicked"
    /\ open
    /\ pc = "render"
    /\ frame # <<>>
    /\ \E i \in DOMAIN canvas : canvas[i] # Transparent
    /\ \E i \in DOMAIN canvas : canvas[i] = Transparent

RECURSIVE Replay(_, _)
\* the canvas after the instructions of s have been written, in order, into cv
Replay(cv, s) ==
    IF s = <<>> THEN cv
    ELSE Replay(SetPixel(cv, Index(Head(s), x_size), Rgba(Head(s))), Tail(s))

\* C10 (Order independence): once everything pushed has been drained, the canvas is the
\* one any other delivery order of the same instructions would have produced.
OrderIndependent ==
    (AllEvaluated /\ queue = <<>>) =>
        \A f \in Permutations(1..Len(popSeq)) :
            Replay(ZeroCanvas(x_size, y_size), [i \in 1..Len(popSeq) |-> popSeq[f[i]]]) = canvas

OrderIndependentWitness ==
    /\ AllEvaluated /\ queue = <<>>
    /\ x_size = 2 /\ y_size = 2 /\ fragment = "grad"
    /\ Len(popSeq) = 4
    /\ popSeq[1].x = 1 /\ popSeq[1].y = 1
    /\ popSeq[4].x = 0 /\ popSeq[4].y = 0
    /\ frame # RenderOut(canvas)

(* ---------------------------------------------------------------------- *)
(* Scheduling: the pool threads and the draw thread run whenever they can  *)
(* (ProducerStep); the window thread runs whenever it can (WindowStep).    *)
(* ---------------------------------------------------------------------- *)

ProducerStep == DrawThreadStart \/ WorkerStep \/ DrawThreadEnd

WindowStep == LoopStep \/ Return

\* the workers are scheduled fairly; the window thread may stall anywhere
WorkerFairSpec == LiveInit /\ [][Next]_vars /\ WF_vars(ProducerStep)

\* the workers and the window thread are both scheduled fairly
FairSpec == LiveInit /\ [][Next]_vars /\ WF_vars(ProducerStep) /\ WF_vars(WindowStep)

\* every coordinate a window of the explored sizes can have
Coords == {c \in (0..(LiveArea - 1)) \X (0..(LiveArea - 1)) : (c[1] + 1) * (c[2] + 1) <= LiveArea}

\* the fragment function fails somewhere in the domain of this launch
AnyPanic == \E c \in Dom : FragPanics(fragment, FragArg(c), state)

\* an instruction for coordinate c is in the channel
InQueue(c) == \E i \in DOMAIN queue : queue[i].x = c[1] /\ queue[i].y = c[2]

\* an instruction for coordinate c has been popped and its color is in the canvas
Written(c) ==
    \E i \in DOMAIN popSeq :
        /\ popSeq[i].x = c[1] /\ popSeq[i].y = c[2]
        /\ canvas[c[2] * x_size + c[1]] = <<popSeq[i].r, popSeq[i].g, popSeq[i].b, popSeq[i].a>>

\* the canvas holds f of every coordinate of the domain
CanvasComplete ==
    \A x \in 0..(x_size - 1) : \A y \in 0..(y_size - 1) : canvas[y * x_size + x] = Expected(x, y)

\* C4 (Eventual delivery): with workers and window thread scheduled fairly, every
\* instruction in the channel is eventually popped and written into the canvas unless
\* the window is closed, and unless the window is closed (or the fragment function
\* fails) the canvas eventually holds every coordinate of the domain.
EventualDelivery ==
    /\ \A c \in Coords : InQueue(c) ~> (~open \/ Written(c))
    /\ <>(~open \/ AnyPanic \/ CanvasComplete)

EventualDeliveryWitness ==
    /\ open
    /\ x_size * y_size = LiveArea
    /\ ~AnyPanic
    /\ CanvasComplete
    /\ fragment = "scaled"
    /\ \A c \in Dom : Written(c)

\* every coordinate of the domain has been evaluated once and its result pushed
AllPushed == \A c \in Dom : evals[c] = 1 /\ PushesOf(c) = 1

\* C8 (No cancellation): with the workers scheduled fairly, and whatever the window
\* thread does (closing early included), every coordinate of the domain is eventually
\* evaluated and its result pushed, provided the fragment function does not fail.
NoCancellation == <>(AnyPanic \/ AllPushed)

NoCancellationWitness ==
    /\ pc = "returned"
    /\ ~AnyPanic
    /\ AllPushed
    /\ x_size * y_size = LiveArea
    /\ Len(queue) = LiveArea
    /\ popSeq = <<>>

PushNeverBlocks == \A w \in Workers : worker[w].st = "painted" => ENABLED Push(w)

PushNeverBlocksWitness ==
    /\ pc = "returned"
    /\ \E w \in Workers : worker[w].st = "painted"
    /\ Len(queue) >= MaxArea - 1

(* ---------------------------------------------------------------------- *)
(* The shared-state scenario: a window 200 wide and 1 high, the fragment   *)
(* function Color(min(x * k, 255), 0, 0, 255) and the state k = 2. The     *)
(* run is taken up at a point every launch of that size passes through or  *)
(* can pass through: all coordinates but ScenarioRest have been evaluated, *)
(* pushed, popped and painted in ascending order, the frame has just been  *)
(* drawn, and the pool threads are free to take the remaining items.       *)
(* ---------------------------------------------------------------------- *)

\* the coordinates of the scenario that are still to be evaluated
ScenarioRest == {<<10, 0>>, <<130, 0>>}

\* the instructions of the coordinates already painted, in ascending order of x
ScenarioPainted ==
    LET all == [i \in 1..200 |-> MkPaint(<<i - 1, 0>>, FragColor("scaled", FragArg(<<i - 1, 0>>), 2))]
        Settled(p) == <<p.x, p.y>> \notin ScenarioRest
    IN  SelectSeq(all, Settled)

\* the canvas after the instructions of ScenarioPainted have been written
ScenarioCanvas ==
    [i \in 0..199 |->
        LET at == {k \in DOMAIN ScenarioPainted : Index(ScenarioPainted[k], 200) = i}
        IN  IF at = {} THEN <<0, 0, 0, 0>> ELSE Rgba(ScenarioPainted[CHOOSE k \in at : TRUE])]

ScenarioInit ==
    /\ x_size = 200
    /\ y_size = 1
    /\ fragment = "scaled"
    /\ state = 2
    /\ dispatch = "running"
    /\ todo = ScenarioRest
    /\ worker = [w \in Workers |-> Idle]
    /\ queue = <<>>
    /\ canvas = ScenarioCanvas
    /\ frame = RenderOut(canvas)
    /\ shown = canvas
    /\ open = TRUE
    /\ pc = "drain_check"
    /\ polled = 0
    /\ closeSeen = FALSE
    /\ quitSeen = FALSE
    /\ evals = [c \in Domain(200, 1) |-> IF c \in ScenarioRest THEN 0 ELSE 1]
    /\ pushLog = [p \in {ScenarioPainted[k] : k \in DOMAIN ScenarioPainted} |-> 1]
    /\ popSeq = ScenarioPainted

\* the scenario, beside the small windows
ScenarioSpec == (ScenarioInit \/ LiveInit) /\ [][Next]_vars

\* C13 (Shared state scenario): the state is never changed after the launch and every
\* fragment call receives it: each computed instruction carries f of its coordinate
\* and the launch's state; and in the scenario (width 200, k = 2) the instructions
\* computed for (10, 0) and (130, 0) are (20, 0, 0, 255) and (255, 0, 0, 255), which are
\* the canvas entries of these coordinates once everything is drained.
SharedStateScenario ==
    /\ [][state' = state]_vars
    /\ [](\A w \in Workers : worker[w].st = "painted" =>
            <<worker[w].paint.r, worker[w].paint.g, worker[w].paint.b, worker[w].paint.a>>
                = Expected(worker[w].paint.x, worker[w].paint.y))
    /\ [](x_size = 200 =>
            /\ state = 2
            /\ \A w \in Workers : worker[w].st = "painted" =>
                   worker[w].paint \in
                       {[x |-> 10, y |-> 0, r |-> 20, g |-> 0, b |-> 0, a |-> 255],
                        [x |-> 130, y |-> 0, r |-> 255, g |-> 0, b |-> 0, a |-> 255]}
            /\ (AllEvaluated /\ queue = <<>>) =>
                   (canvas[130] = <<255, 0, 0, 255>> /\ canvas[10] = <<20, 0, 0, 255>>))

SharedStateScenarioWitness ==
    /\ x_size = 200 /\ state = 2
    /\ AllEvaluated /\ queue = <<>> /\ open
    /\ canvas[130] = <<255, 0, 0, 255>>
    /\ canvas[10] = <<20, 0, 0, 255>>
    /\ canvas[131] = <<255, 0, 0, 255>>
    /\ canvas[9] = <<18, 0, 0, 255>>
    /\ Len(popSeq) = 200

\* only the window thread is scheduled fairly; the workers may stall anywhere, for ever
WindowFairSpec == LiveInit /\ [][Next]_vars /\ WF_vars(WindowStep)

\* C14 (The consumer never waits for producers): with fairness for the window thread
\* alone, every drain that has started ends (the thread reaches the poll), every
\* iteration started in Open reaches its poll, and while the window is open the poll
\* is reached again and again, so an event waiting there is eventually handled.
ConsumerNeverWaits ==
    /\ (pc \in {"drain_check", "drain_pop"}) ~> (pc = "poll")
    /\ (pc = "render") ~> (pc = "poll")
    /\ []<>(pc = "poll" \/ ~open)

\* the drain is running on an empty channel while a worker holds a result and items
\* are still to be evaluated
ConsumerNeverWaitsWitness ==
    /\ pc = "drain_pop"
    /\ queue = <<>>
    /\ popSeq # <<>>
    /\ dispatch = "running"
    /\ \E w \in Workers : worker[w].st = "painted"

\* the moves of the window thread: loop test, render, drain, poll, loop test, and out
LoopOrder ==
    {<<"while", "render">>, <<"render", "drain_check">>, <<"drain_check", "drain_pop">>,
     <<"drain_check", "poll">>, <<"drain_pop", "poll">>, <<"poll", "while">>,
     <<"while", "exited">>, <<"exited", "returned">>}

\* C15 (Iteration order): the window thread moves only Render, then Drain, then Poll,
\* then the loop test; nothing is popped before the first Render; the presented frame
\* changes only in a Render step, so what a Drain writes is not shown during that
\* iteration; the next Render shows everything written so far; and after a close has
\* been observed the frame does not change any more.
IterationOrder ==
    /\ [][pc' # pc => <<pc, pc'>> \in LoopOrder]_vars
    /\ [](popSeq # <<>> => frame # <<>>)
    /\ [][(frame' # frame \/ shown' # shown) => (pc = "render" /\ pc' = "drain_check")]_vars
    /\ [](pc = "drain_check" => (shown = canvas /\ frame = RenderOut(canvas)))
    /\ [][~open => frame' = frame]_vars

\* the loop has returned after a close, with written instructions never shown
IterationOrderWitness ==
    /\ pc = "returned"
    /\ shown # canvas
    /\ frame # <<>>
    /\ \E i \in DOMAIN shown : shown[i] # Transparent
    /\ queue = <<>>

\* the loop has been left: `while open` has failed
Closed == pc \in {"exited", "returned"}

\* C16 (Discard on close): every step taken once the loop has been left keeps the
\* canvas, the presented frame and the sequence of popped instructions as they are,
\* keeps every queued instruction in the queue (later pushes only append behind them),
\* and stays in the left-the-loop positions, never in the crashed one.
DiscardOnClose ==
    [][Closed => /\ canvas' = canvas
                 /\ frame' = frame
                 /\ popSeq' = popSeq
                 /\ Len(queue') >= Len(queue)
                 /\ SubSeq(queue', 1, Len(queue)) = queue
                 /\ pc' \in {"exited", "returned"}]_vars

\* the window has returned while instructions pushed before and after are still
\* queued for pixels that stay transparent
DiscardOnCloseWitness ==
    /\ pc = "returned"
    /\ dispatch = "done"
    /\ popSeq # <<>>
    /\ Len(queue) >= 2
    /\ \A k \in DOMAIN queue : canvas[Index(queue[k], x_size)] = Transparent
    /\ \E k \in DOMAIN queue : Rgba(queue[k]) # Transparent

\* every instruction made so far: pushed at some time, or held by a worker about to push
Instructions ==
    DOMAIN pushLog \cup {worker[w].paint : w \in {v \in Workers : worker[v].st = "painted"}}

\* C17 (Canvas addressing): the canvas has the entries 0 .. x_size*y_size - 1; every
\* instruction made by the dispatch has 0 <= y*x_size + x < x_size*y_size; two
\* instructions with different coordinates have different indices; every popped
\* instruction has been written at index y*x_size + x; and no write is out of bounds.
CanvasAddressing ==
    /\ DOMAIN canvas = 0..(x_size * y_size - 1)
    /\ \A p \in Instructions :
          /\ 0 <= p.y * x_size + p.x
          /\ p.y * x_size + p.x < x_size * y_size
    /\ \A p, q \in Instructions :
          <<p.x, p.y>> # <<q.x, q.y>> => p.y * x_size + p.x # q.y * x_size + q.x
    /\ \A k \in DOMAIN popSeq :
          canvas[popSeq[k].y * x_size + popSeq[k].x]
              = <<popSeq[k].r, popSeq[k].g, popSeq[k].b, popSeq[k].a>>
    /\ pc # "crashed"

\* a 2 x 2 canvas whose four entries have all been written, the last row included
CanvasAddressingWitness ==
    /\ x_size = 2
    /\ y_size = 2
    /\ Len(popSeq) = 4
    /\ \E k \in DOMAIN popSeq : popSeq[k].x = 1 /\ popSeq[k].y = 1 /\ canvas[3] = Rgba(popSeq[k])
    /\ \E k \in DOMAIN popSeq : popSeq[k].x = 0 /\ popSeq[k].y = 1 /\ canvas[2] = Rgba(popSeq[k])
    /\ canvas[2] # canvas[3]

\* the canvas entries the drain has written so far
WrittenIndices == {popSeq[k].y * x_size + popSeq[k].x : k \in DOMAIN popSeq}

\* C18 (Monotonic fill): no two popped instructions are written to the same canvas
\* entry, and no step of the window thread or of a worker changes the value of an
\* entry that has been written, so a written entry is never reset to transparent.
MonotonicFill ==
    /\ [](\A j, k \in DOMAIN popSeq :
             j # k => popSeq[j].y * x_size + popSeq[j].x # popSeq[k].y * x_size + popSeq[k].x)
    /\ [][\A i \in WrittenIndices : canvas'[i] = canvas[i]]_vars
    /\ [][\A i \in DOMAIN canvas : canvas'[i] # canvas[i] => DrainPop]_vars

\* an entry written in an earlier iteration and shown by a render has kept its value
\* through a later drain that wrote other entries
MonotonicFillWitness ==
    /\ pc = "poll"
    /\ shown # <<>>
    /\ shown # canvas
    /\ Len(popSeq) >= 2
    /\ \E i \in DOMAIN shown : shown[i] # Transparent /\ canvas[i] = shown[i]

\* C19 (Loop state): the loop starts open; `open` becomes false only in the poll, in
\* the callback of a CloseRequested event or of a W key event with logo or ctrl; the
\* callback of any other event leaves it true, as does every step of a worker, of the
\* render and of the drain; and once false it is never true again.
LoopStateForward ==
    /\ open = TRUE
    /\ [](open <=> ~quitSeen)
    /\ [][(open /\ ~open') =>
             /\ pc = "poll" /\ pc' = "poll"
             /\ \E ev \in Events : IsQuit(ev) /\ PollEvent(ev)]_vars
    /\ [][(open /\ \E ev \in Events : ~IsQuit(ev) /\ PollEvent(ev)) => open']_vars
    /\ [][~open => ~open']_vars

\* closed by a key combination, not by a close request, while the dispatch still runs
LoopStateForwardWitness ==
    /\ ~open
    /\ quitSeen
    /\ ~closeSeen
    /\ pc = "returned"
    /\ dispatch = "running"
    /\ todo # {}

\* the number of pushes made so far
Pushed == BagCardinality(pushLog)

\* C20 (Instruction conservation): in every reachable state the number of pushes equals
\* the number of queued instructions plus the number of popped ones, and is at most
\* x_size*y_size; so the queue never holds more than x_size*y_size instructions, and
\* the canvas entries that differ from the initial value are at most as many as the
\* pushes (and as the pops).
InstructionConservation ==
    /\ Pushed = Len(queue) + Len(popSeq)
    /\ Pushed <= x_size * y_size
    /\ Len(queue) <= x_size * y_size
    /\ Cardinality({i \in DOMAIN canvas : canvas[i] # ZeroCanvas(x_size, y_size)[i]}) <= Len(popSeq)
    /\ Len(popSeq) <= Pushed

\* every coordinate of a window of four pixels has been pushed; part of the
\* instructions is written, part is still queued
InstructionConservationWitness ==
    /\ x_size * y_size = 4
    /\ Pushed = 4
    /\ Len(queue) = 2
    /\ Len(popSeq) = 2
    /\ Cardinality({i \in DOMAIN canvas : canvas[i] # Transparent}) = 2

====
